---- MODULE Spec2Model ----
(***************************************************************************)
(* Model of the BitField trait of src/lib.rs as implemented by the macro   *)
(* bitfield_numeric_impl for the primitive integer types.  The 8-bit       *)
(* instantiations u8 and i8 are modelled; the macro body is the same text  *)
(* for every type, only the width and the signedness of the operators      *)
(* <<, >>, &, |, ! differ.  An integer of a type is its mathematical       *)
(* value (i8: -128..127, u8: 0..255).                                      *)
(***************************************************************************)
EXTENDS Integers, Sequences, FiniteSets, TLC

VARIABLES ty, value, pc, call, log

vars == <<ty, value, pc, call, log>>

(* bound on the length of a logged sequence of set_bit calls *)
MaxCalls == 4

---------------------------------------------------------------------------
(* The instantiated types (line 166), restricted to the 8-bit ones. *)
Types == {"u8", "i8"}

Signed(t) == t = "i8"

size_of(t) == CASE t = "u8" -> 1 [] t = "i8" -> 1

(* fn bit_length(&self) -> u8 *)
bit_length(t) == size_of(t) * 8

Pow2(k) == 2 ^ k

MinVal(t) == IF Signed(t) THEN 0 - Pow2(bit_length(t) - 1) ELSE 0
MaxVal(t) == IF Signed(t) THEN Pow2(bit_length(t) - 1) - 1 ELSE Pow2(bit_length(t)) - 1
Values(t) == MinVal(t)..MaxVal(t)

(* the unsigned bit pattern of an integer of type t *)
Pattern(t, x) == x % Pow2(bit_length(t))

(* the integer of type t with a given bit pattern (two's complement) *)
FromPattern(t, p) ==
    LET m == p % Pow2(bit_length(t))
    IN  IF Signed(t) /\ m >= Pow2(bit_length(t) - 1) THEN m - Pow2(bit_length(t)) ELSE m

(* bit j of an integer of type t, read from its bit pattern *)
BitOf(t, x, j) == (Pattern(t, x) \div Pow2(j)) % 2

RECURSIVE AndPattern(_, _, _)
AndPattern(a, b, n) ==
    IF n = 0 THEN 0
    ELSE (a % 2) * (b % 2) + 2 * AndPattern(a \div 2, b \div 2, n - 1)

(* x & y *)
BitAnd(t, x, y) == FromPattern(t, AndPattern(Pattern(t, x), Pattern(t, y), bit_length(t)))

(* x | y *)
BitOr(t, x, y) ==
    FromPattern(t, Pattern(t, x) + Pattern(t, y)
                     - AndPattern(Pattern(t, x), Pattern(t, y), bit_length(t)))

(* !x *)
BitNot(t, x) == FromPattern(t, Pow2(bit_length(t)) - 1 - Pattern(t, x))

(* The shift amount the machine uses: Rust masks an overflowing amount to   *)
(* the width when overflow checks are off (wrapping_shl / wrapping_shr).    *)
ShiftAmount(t, k) == k % bit_length(t)

(* x << k: bits shifted out at the top are dropped *)
Shl(t, x, k) == FromPattern(t, Pattern(t, x) * Pow2(ShiftAmount(t, k)))

(* x >> k: arithmetic for a signed type, logical for an unsigned one; both  *)
(* are the floor of x / 2^k on the mathematical value                       *)
Shr(t, x, k) == x \div Pow2(ShiftAmount(t, k))

(* u8 subtraction a - b as the machine computes it with checks off *)
SubU8(a, b) == (a - b) % 256

---------------------------------------------------------------------------
(* The record of the last call: its name and arguments, the value before   *)
(* it, what it returned, every shift amount it asked for (in program       *)
(* order), the exact difference of every u8 subtraction it computed, and   *)
(* (get_bits) the intermediate `bits`.                                     *)
NoCall ==
    [op |-> "none", bit |-> 0, start |-> 0, end |-> 0, flag |-> FALSE, field |-> 0,
     old |-> 0, retb |-> FALSE, ret |-> 0, shifts |-> <<>>, subs |-> <<>>, mid |-> 0]

NoLog == [on |-> FALSE, v0 |-> 0, last |-> <<>>, n |-> 0]

(* The outcomes of a call that got past its assertions with the run r      *)
(* computed with overflow checks off: with overflow checks on (a debug     *)
(* build) a shift by an amount >= the width or a u8 subtraction below zero *)
(* panics instead.                                                         *)
Overflowed(t, r) ==
    \/ \E i \in 1..Len(r.shifts) : r.shifts[i] >= bit_length(t)
    \/ \E i \in 1..Len(r.subs) : r.subs[i] < 0

---------------------------------------------------------------------------
(* What one call does: whether it panicked, the value it leaves in *self,  *)
(* the bool / integer it returns, and the shifts and subtractions it made. *)
Run(p, v, rb, r, sh, su, m) ==
    [panicked |-> p, value |-> v, retb |-> rb, ret |-> r, shifts |-> sh, subs |-> su,
     mid |-> m]

(* assert!(..) failed: the call panics, *self is as it was *)
Panic(self, sh, su) == Run(TRUE, self, FALSE, 0, sh, su, 0)

Outcomes(t, self, r) ==
    IF ~r.panicked /\ Overflowed(t, r)
    THEN {r, Panic(self, r.shifts, r.subs)}
    ELSE {r}

(* get_bits written with the mask (1 << width) - 1 instead of the double    *)
(* shift: the shift is by the whole width when the range is the full width *)
get_bits_naive_mask(t, self, start, end) ==
    IF ~(start < bit_length(t)) THEN Panic(self, <<>>, <<>>)
    ELSE IF ~(end <= bit_length(t)) THEN Panic(self, <<>>, <<>>)
    ELSE IF ~(start < end) THEN Panic(self, <<>>, <<>>)
    ELSE
      LET width == SubU8(end, start)
          mask  == FromPattern(t, Pattern(t, Shl(t, 1, width)) - 1)
          bits  == Shr(t, self, start)
      IN  Run(FALSE, self, FALSE, BitAnd(t, bits, mask),
              <<start, width>>, <<end - start>>, bits)

(* set_bit with the clearing branch written without the `!` *)
set_bit_no_invert(t, self, bit, flag) ==
    IF ~(bit < bit_length(t)) THEN Panic(self, <<>>, <<>>)
    ELSE IF flag
         THEN Run(FALSE, BitOr(t, self, Shl(t, 1, bit)), FALSE, 0, <<bit>>, <<>>, 0)
         ELSE Run(FALSE, BitAnd(t, self, Shl(t, 1, bit)), FALSE, 0, <<bit>>, <<>>, 0)

(* set_bit with the setting branch written as a toggle (^= for |=) *)
set_bit_toggle(t, self, bit, flag) ==
    IF ~(bit < bit_length(t)) THEN Panic(self, <<>>, <<>>)
    ELSE IF flag
         THEN Run(FALSE,
                  FromPattern(t, Pattern(t, self) + Pattern(t, Shl(t, 1, bit))
                       - 2 * AndPattern(Pattern(t, self), Pattern(t, Shl(t, 1, bit)),
                                        bit_length(t))),
                  FALSE, 0, <<bit>>, <<>>, 0)
         ELSE Run(FALSE, BitAnd(t, self, BitNot(t, Shl(t, 1, bit))), FALSE, 0,
                  <<bit>>, <<>>, 0)

(* set_bit that sets the bit whatever the flag *)
set_bit_ignores_flag(t, self, bit, flag) ==
    IF ~(bit < bit_length(t)) THEN Panic(self, <<>>, <<>>)
    ELSE Run(FALSE, BitOr(t, self, Shl(t, 1, bit)), FALSE, 0, <<bit>>, <<>>, 0)

(* set_bits with the keep-mask built from (1 << width) - 1 *)
set_bits_naive_mask(t, self, start, end, field) ==
    IF ~(start < bit_length(t)) THEN Panic(self, <<>>, <<>>)
    ELSE IF ~(end <= bit_length(t)) THEN Panic(self, <<>>, <<>>)
    ELSE IF ~(start < end) THEN Panic(self, <<>>, <<>>)
    ELSE
      LET width == SubU8(end, start)
          fit   == SubU8(bit_length(t), width)
          fsubs == <<end - start, bit_length(t) - width,
                     end - start, bit_length(t) - width>>
      IN  IF ~(Shr(t, Shl(t, field, fit), fit) = field)
          THEN Panic(self, <<fit, fit>>, fsubs)
          ELSE
            LET low     == FromPattern(t, Pattern(t, Shl(t, 1, width)) - 1)
                bitmask == BitNot(t, Shl(t, low, start))
            IN  Run(FALSE, BitOr(t, BitAnd(t, self, bitmask), Shl(t, field, start)),
                    FALSE, 0,
                    <<fit, fit, width, start, start>>,
                    fsubs \o <<end - start>>, 0)

(* fn get_bit(&self, bit: u8) -> bool *)
get_bit(t, self, bit) ==
    IF ~(bit < bit_length(t)) THEN Panic(self, <<>>, <<>>)
    ELSE Run(FALSE, self, BitAnd(t, self, Shl(t, 1, bit)) # 0, 0, <<bit>>, <<>>, 0)

(* fn get_bits(&self, range: Range<u8>) -> Self *)
get_bits(t, self, start, end) ==
    IF ~(start < bit_length(t)) THEN Panic(self, <<>>, <<>>)
    ELSE IF ~(end <= bit_length(t)) THEN Panic(self, <<>>, <<>>)
    ELSE IF ~(start < end) THEN Panic(self, <<>>, <<>>)
    ELSE
      LET hi   == SubU8(bit_length(t), end)
          bits == Shr(t, Shl(t, self, hi), hi)
      IN  Run(FALSE, self, FALSE, Shr(t, bits, start),
              <<hi, hi, start>>,
              <<bit_length(t) - end, bit_length(t) - end>>, bits)

(* fn set_bit(&mut self, bit: u8, value: bool) -> &mut Self *)
set_bit(t, self, bit, flag) ==
    IF ~(bit < bit_length(t)) THEN Panic(self, <<>>, <<>>)
    ELSE IF flag
         THEN Run(FALSE, BitOr(t, self, Shl(t, 1, bit)), FALSE, 0, <<bit>>, <<>>, 0)
         ELSE Run(FALSE, BitAnd(t, self, BitNot(t, Shl(t, 1, bit))), FALSE, 0,
                  <<bit>>, <<>>, 0)

(* fn set_bits(&mut self, range: Range<u8>, value: Self) -> &mut Self *)
set_bits(t, self, start, end, field) ==
    IF ~(start < bit_length(t)) THEN Panic(self, <<>>, <<>>)
    ELSE IF ~(end <= bit_length(t)) THEN Panic(self, <<>>, <<>>)
    ELSE IF ~(start < end) THEN Panic(self, <<>>, <<>>)
    ELSE
      LET width == SubU8(end, start)
          fit   == SubU8(bit_length(t), width)
          fsubs == <<end - start, bit_length(t) - width,
                     end - start, bit_length(t) - width>>
      IN  IF ~(Shr(t, Shl(t, field, fit), fit) = field)
          THEN Panic(self, <<fit, fit>>, fsubs)
          ELSE
            LET hi      == SubU8(bit_length(t), end)
                bitmask == BitNot(t, Shl(t, Shr(t, Shr(t, Shl(t, BitNot(t, 0), hi), hi),
                                                start), start))
            IN  Run(FALSE, BitOr(t, BitAnd(t, self, bitmask), Shl(t, field, start)),
                    FALSE, 0,
                    <<fit, fit, hi, hi, start, start, start>>,
                    fsubs \o <<bit_length(t) - end, bit_length(t) - end>>, 0)

---------------------------------------------------------------------------
(* The arguments the callers pass: every index and range bound up to one   *)
(* past the width, and field values of every shape the fit check tells     *)
(* apart (low masks, single bits, high masks, mixed patterns).             *)
Indexes(t) == 0..bit_length(t)
Starts(t) == 0..bit_length(t)
Ends(t) == 0..(bit_length(t) + 1)

FieldPatterns(t) ==
    {Pow2(k) - 1 : k \in 0..bit_length(t)}
    \cup {Pow2(k) : k \in 0..(bit_length(t) - 1)}
    \cup {Pow2(bit_length(t)) - Pow2(k) : k \in 0..(bit_length(t) - 1)}
    \cup {5, 10, 13, 53, 85, 126, 129, 170}

Fields(t) == {FromPattern(t, p) : p \in FieldPatterns(t)}

(* the values a logged sequence of set_bit calls starts from *)
StartPatterns(t) == {0, 1, 53, Pow2(bit_length(t) - 1), Pow2(bit_length(t)) - 1}

Unset(t) == [i \in 1..bit_length(t) |-> "none"]

---------------------------------------------------------------------------
Init ==
    /\ ty \in Types
    /\ value \in Values(ty)
    /\ pc = "ready"
    /\ call = NoCall
    /\ log = NoLog

(* the same program, with the set_bit calls logged from the start *)
InitSeq ==
    /\ ty \in Types
    /\ value \in {FromPattern(ty, p) : p \in StartPatterns(ty)}
    /\ pc = "ready"
    /\ call = NoCall
    /\ log = [on |-> TRUE, v0 |-> value, last |-> Unset(ty), n |-> 0]

(* The caller's position: "ready" to make a call, "returned" with the      *)
(* result of the call in hand, "panicked" when the call's panic ended it.  *)
Finish(o) ==
    /\ value' = o.value
    /\ pc' = IF o.panicked THEN "panicked" ELSE "returned"
    /\ ty' = ty

(* the caller drops the result and goes on to its next call *)
Continue ==
    /\ pc = "returned"
    /\ pc' = "ready"
    /\ call' = NoCall
    /\ UNCHANGED <<ty, value, log>>

GetBit ==
    /\ pc = "ready"
    /\ \E bit \in Indexes(ty) : \E o \in Outcomes(ty, value, get_bit(ty, value, bit)) :
         /\ Finish(o)
         /\ call' = [NoCall EXCEPT !.op = "get_bit", !.bit = bit, !.old = value,
                                   !.retb = o.retb, !.shifts = o.shifts,
                                   !.subs = o.subs]
         /\ log' = log

GetBits ==
    /\ pc = "ready"
    /\ \E start \in Starts(ty), end \in Ends(ty) :
         \E o \in Outcomes(ty, value, get_bits(ty, value, start, end)) :
           /\ Finish(o)
           /\ call' = [NoCall EXCEPT !.op = "get_bits", !.start = start, !.end = end,
                                     !.old = value, !.ret = o.ret, !.mid = o.mid,
                                     !.shifts = o.shifts, !.subs = o.subs]
           /\ log' = log

SetBit ==
    /\ pc = "ready"
    /\ log.on => log.n < MaxCalls
    /\ \E bit \in Indexes(ty), flag \in BOOLEAN :
         \E o \in Outcomes(ty, value, set_bit(ty, value, bit, flag)) :
           /\ Finish(o)
           /\ call' = [NoCall EXCEPT !.op = "set_bit", !.bit = bit, !.flag = flag,
                                     !.old = value, !.shifts = o.shifts,
                                     !.subs = o.subs]
           /\ log' = IF log.on /\ ~o.panicked
                     THEN [log EXCEPT !.last[bit + 1] = IF flag THEN "true" ELSE "false",
                                      !.n = log.n + 1]
                     ELSE log

SetBits ==
    /\ pc = "ready"
    /\ \E start \in Starts(ty), end \in Ends(ty), field \in Fields(ty) :
         \E o \in Outcomes(ty, value, set_bits(ty, value, start, end, field)) :
           /\ Finish(o)
           /\ call' = [NoCall EXCEPT !.op = "set_bits", !.start = start, !.end = end,
                                     !.field = field, !.old = value,
                                     !.shifts = o.shifts, !.subs = o.subs]
           /\ log' = log

Next == GetBit \/ GetBits \/ SetBit \/ SetBits \/ Continue

Spec == Init /\ [][Next]_vars

NextSeq == SetBit \/ Continue

SpecSeq == InitSeq /\ [][NextSeq]_vars

---------------------------------------------------------------------------
(* Vocabulary of the properties. *)
W == bit_length(ty)

Called(name) == pc \in {"returned", "panicked"} /\ call.op = name

ValidIndex == call.bit < W

ValidRange == call.start < W /\ call.end <= W /\ call.start < call.end

(* field read as an unsigned W-bit pattern has no 1 bit at a position >= n *)
Fits(field, n) == \A j \in 0..(W - 1) : j >= n => BitOf(ty, field, j) = 0

RECURSIVE SumTrue(_, _)
SumTrue(last, n) ==
    IF n = 0 THEN 0
    ELSE (IF last[n] = "true" THEN Pow2(n - 1) ELSE 0) + SumTrue(last, n - 1)

---------------------------------------------------------------------------
(* C1: for every type, value and valid range, get_bits returns the value   *)
(* whose bit j is bit start+j of the value for j < end-start and whose     *)
(* bits at positions >= end-start are all zero (no sign extension).        *)
C1_GetBitsIsPlainSlice ==
    (Called("get_bits") /\ ValidRange) =>
        /\ pc = "returned"
        /\ \A j \in 0..(W - 1) :
             BitOf(ty, call.ret, j) =
                IF j < call.end - call.start THEN BitOf(ty, call.old, call.start + j)
                ELSE 0

(* the same statement for the unsigned type alone *)
GetBitsIsPlainSliceUnsigned == ~Signed(ty) => C1_GetBitsIsPlainSlice

(* what the code returns for a signed type: the slice sign-extended from   *)
(* its own top bit, bit end-1 of the value                                 *)
GetBitsSignExtends ==
    (Called("get_bits") /\ ValidRange /\ Signed(ty)) =>
        /\ pc = "returned"
        /\ \A j \in 0..(W - 1) :
             BitOf(ty, call.ret, j) =
                IF j < call.end - call.start THEN BitOf(ty, call.old, call.start + j)
                ELSE BitOf(ty, call.old, call.end - 1)

(* C2: after an accepted set_bits, bit start+j of the value is bit j of    *)
(* field for j < end-start, and every bit below start or at >= end is the  *)
(* bit of the value before the call.                                       *)
C2_SetBitsWritesRangeKeepsRest ==
    (pc = "returned" /\ call.op = "set_bits") =>
        \A k \in 0..(W - 1) :
            BitOf(ty, value, k) =
                IF call.start <= k /\ k < call.end
                THEN BitOf(ty, call.field, k - call.start)
                ELSE BitOf(ty, call.old, k)

SetBitsWritesRangeKeepsRestUnsigned == ~Signed(ty) => C2_SetBitsWritesRangeKeepsRest

(* C3: with a valid range, set_bits fails the contract if and only if      *)
(* field, as an unsigned W-bit pattern, has a 1 bit at a position          *)
(* >= end-start.                                                           *)
C3_SetBitsRejectsIffFieldTooWide ==
    (Called("set_bits") /\ ValidRange) =>
        (pc = "panicked" <=> ~Fits(call.field, call.end - call.start))

SetBitsRejectsIffFieldTooWideUnsigned == ~Signed(ty) => C3_SetBitsRejectsIffFieldTooWide

(* C4: with a valid range and a field that fits, set_bits completes and    *)
(* get_bits of the result over the same range is field.                    *)
C4_GetBitsAfterSetBits ==
    (Called("set_bits") /\ ValidRange /\ Fits(call.field, call.end - call.start)) =>
        /\ pc = "returned"
        /\ \A o \in Outcomes(ty, value, get_bits(ty, value, call.start, call.end)) :
             ~o.panicked /\ o.ret = call.field

GetBitsAfterSetBitsUnsigned == ~Signed(ty) => C4_GetBitsAfterSetBits

(* C5: with a valid index i, after set_bit(i, flag) get_bit(i) is flag and *)
(* get_bit(k) for every other index k is what it was before the call.      *)
C5_GetBitAfterSetBit ==
    (Called("set_bit") /\ ValidIndex) =>
        /\ pc = "returned"
        /\ \A k \in 0..(W - 1) :
             /\ ~get_bit(ty, value, k).panicked
             /\ get_bit(ty, value, k).retb =
                  IF k = call.bit THEN call.flag ELSE get_bit(ty, call.old, k).retb

C5_Witness ==
    /\ pc = "returned" /\ call.op = "set_bit" /\ ty = "i8"
    /\ call.bit = W - 1 /\ call.flag /\ call.old > 0 /\ value < 0

(* C6: every out-of-bounds call (index >= W; start >= W, end > W or        *)
(* start >= end; a set_bits field that does not fit) fails the contract    *)
(* and leaves the value as it was before the call.                         *)
OutOfBounds ==
    \/ call.op \in {"get_bit", "set_bit"} /\ ~ValidIndex
    \/ call.op \in {"get_bits", "set_bits"} /\ ~ValidRange
    \/ call.op = "set_bits" /\ ValidRange /\ ~Fits(call.field, call.end - call.start)

C6_OutOfBoundsFailsUnchanged ==
    (pc \in {"returned", "panicked"} /\ OutOfBounds) =>
        pc = "panicked" /\ value = call.old

OutOfBoundsFailsUnchangedUnsigned == ~Signed(ty) => C6_OutOfBoundsFailsUnchanged

(* a call that failed left the value as it was, whatever the type *)
PanicLeavesValue == pc = "panicked" => value = call.old

(* an index or a range out of bounds always fails, whatever the type *)
BadIndexOrRangeFails ==
    (pc \in {"returned", "panicked"}
       /\ \/ call.op \in {"get_bit", "set_bit"} /\ ~ValidIndex
          \/ call.op \in {"get_bits", "set_bits"} /\ ~ValidRange) =>
        pc = "panicked"

(* C7: the full-width range 0..W is accepted by both range operations:     *)
(* get_bits returns the value itself, set_bits accepts every field and     *)
(* leaves the value equal to field.                                        *)
C7_FullWidthRange ==
    /\ (Called("get_bits") /\ call.start = 0 /\ call.end = W) =>
          pc = "returned" /\ call.ret = call.old
    /\ (Called("set_bits") /\ call.start = 0 /\ call.end = W) =>
          pc = "returned" /\ value = call.field

C7_Witness ==
    /\ pc = "returned" /\ call.op = "set_bits" /\ ty = "i8"
    /\ call.start = 0 /\ call.end = W /\ call.field < 0 /\ call.old > 0
    /\ value = call.field

(* C8: with a valid index i, set_bit(i, get_bit(i)) leaves the value       *)
(* unchanged.                                                              *)
C8_SetBitOfGetBit ==
    (Called("set_bit") /\ ValidIndex /\ call.flag = get_bit(ty, call.old, call.bit).retb) =>
        pc = "returned" /\ value = call.old

C8_Witness ==
    /\ pc = "returned" /\ call.op = "set_bit" /\ ty = "i8" /\ call.bit = W - 1
    /\ call.flag /\ call.flag = get_bit(ty, call.old, call.bit).retb
    /\ value = call.old

(* C9: in every call that passes the bounds checks, every shift is by an   *)
(* amount in [0, W-1] and every subtraction computing a shift amount is    *)
(* non-negative; when end = W (end - start = W) the shift pair is by 0     *)
(* and changes nothing.                                                    *)
PassesBoundsChecks ==
    /\ pc \in {"returned", "panicked"}
    /\ \/ call.op \in {"get_bit", "set_bit"} /\ ValidIndex
       \/ call.op \in {"get_bits", "set_bits"} /\ ValidRange

C9_ShiftsInRange ==
    PassesBoundsChecks =>
        /\ Len(call.shifts) > 0
        /\ \A i \in 1..Len(call.shifts) : call.shifts[i] \in 0..(W - 1)
        /\ \A i \in 1..Len(call.subs) : call.subs[i] >= 0
        /\ (call.op = "get_bits" /\ call.end = W) =>
              /\ pc = "returned"
              /\ call.shifts[1] = 0 /\ call.shifts[2] = 0 /\ call.mid = call.old
        /\ (call.op = "set_bits" /\ call.end - call.start = W) =>
              call.shifts[1] = 0 /\ call.shifts[2] = 0 /\ pc = "returned"
        /\ (call.op = "set_bits" /\ call.end = W /\ pc = "returned") =>
              call.shifts[3] = 0 /\ call.shifts[4] = 0

C9_Witness ==
    /\ pc = "returned" /\ call.op = "set_bits" /\ call.start > 0 /\ call.end = W
    /\ Len(call.shifts) = 7 /\ call.shifts[1] = call.start /\ call.shifts[3] = 0
    /\ value # call.old

(* C10: after any sequence of set_bit calls with valid indices from a      *)
(* value v0, get_bit(i) is the flag of the most recent call on index i, or *)
(* bit i of v0 if no call named i; from 0 an unsigned value is the sum of  *)
(* 2^i over the indices whose most recent flag was true.                   *)
C10_LastSetBitWins ==
    log.on =>
        /\ \A i \in 0..(W - 1) :
             get_bit(ty, value, i).retb =
                IF log.last[i + 1] = "none" THEN BitOf(ty, log.v0, i) = 1
                ELSE log.last[i + 1] = "true"
        /\ (~Signed(ty) /\ log.v0 = 0) => value = SumTrue(log.last, W)

C10_Witness ==
    /\ log.on /\ log.n = MaxCalls /\ pc = "returned"
    /\ \E i, j, k \in 0..(W - 1) :
         /\ log.last[i + 1] = "false" /\ BitOf(ty, log.v0, i) = 1
         /\ log.last[j + 1] = "true" /\ BitOf(ty, log.v0, j) = 0
         /\ log.last[k + 1] = "none"
    /\ Cardinality({i \in 1..W : log.last[i] # "none"}) < MaxCalls

====
